---- MODULE Spec2Model ----
(***************************************************************************)
(* Model of the Tenable One asset analysis tool: the CLI dispatcher of     *)
(* src/main.py and the helper operations of src/modules/helper.py.         *)
(*                                                                         *)
(* Text values are sequences of one-character strings, so that lower()     *)
(* and the substring test of the lookups are computed, not assumed.        *)
(* A handler is an operator from its inputs (the arguments, the persisted  *)
(* file, the answers of the vendor API) to a record of what it returned,   *)
(* printed, called and wrote; main's actions apply the handlers in the     *)
(* dispatch order of src/main.py.                                          *)
(***************************************************************************)
EXTENDS Integers, Sequences, FiniteSets, TLC

VARIABLES
    args,        \* parsed command line (argparse namespace)
    pc,          \* position of main in its dispatch sequence
    status,      \* "running", "returned", "exit1" (sys.exit(1)), "raised"
    access_key,  \* os.getenv('TENABLE_ACCESS_KEY') as read by get_client
    secret_key,  \* os.getenv('TENABLE_SECRET_KEY') as read by get_client
    tio,         \* the API client of main: "None" or "client"
    df_assets,   \* the in-memory dataframe of main (NoDf is None)
    file,        \* the persisted dataset at the input/output path
    executed,    \* the command operations main has called, in order
    inp,         \* the inputs of the last handler call
    ret          \* the result record of the last handler call

vars == <<args, pc, status, access_key, secret_key, tio, df_assets, file,
          executed, inp, ret>>

(***************************************************************************)
(* Bounds of the model.                                                    *)
(***************************************************************************)
MaxRows == 2      \* rows of a data file drawn as an input of a lookup
MaxRankRows == 3  \* rows of a dataframe drawn as an input of the ranking
MaxTop == 3       \* largest --top value drawn
MaxScore == 2     \* largest exposure score drawn
MaxAttrs == 3     \* plugin attributes drawn
MaxAssets == 2    \* assets the export stream or the live list yields
MaxScans == 3     \* scans the scan list holds
MaxOver == 2      \* how far around a limit the lengths of a long answer go

(***************************************************************************)
(* Text.                                                                   *)
(***************************************************************************)
Lower(c) ==
    IF c = "A" THEN "a"
    ELSE IF c = "B" THEN "b"
    ELSE IF c = "N" THEN "n"
    ELSE IF c = "U" THEN "u"
    ELSE c

\* str.lower()
lower(s) == [i \in 1..Len(s) |-> Lower(s[i])]

\* q in s, for strings
contains(s, q) ==
    \E i \in 0..(Len(s) - Len(q)) : SubSeq(s, i + 1, i + Len(q)) = q

EmptyStr == <<>>
Unknown == <<"U", "n", "k", "n", "o", "w", "n">>
NA == <<"N", "/", "A">>

\* Python truthiness of a str
truthy(s) == Len(s) > 0

(***************************************************************************)
(* Optional values: a key that is missing, present with None, or present   *)
(* with a value.                                                           *)
(***************************************************************************)
MissingList == [t |-> "missing", l |-> <<>>]
NoneList == [t |-> "none", l |-> <<>>]
List(l) == [t |-> "list", l |-> l]

\* asset.get(key) or []
or_empty(f) == IF f.t = "list" THEN f.l ELSE <<>>

\* Score cells: a number, a numeric string, a non-numeric string, None/NaN,
\* or a key that is missing in the source record.
Num(n) == [t |-> "num", n |-> n]
NumStr(n) == [t |-> "numstr", n |-> n]
Junk == [t |-> "junk", n |-> 0]
NoneScore == [t |-> "none", n |-> 0]
MissingScore == [t |-> "missing", n |-> 0]

\* asset.get(key, 0)
get_default0(f) == IF f.t = "missing" THEN Num(0) ELSE f

\* asset.get('tags', [])
get_default_list(f) == IF f.t = "missing" THEN List(<<>>) ELSE f

(***************************************************************************)
(* Dataframes and the persisted file.                                      *)
(***************************************************************************)
AllColumns == {"id", "ipv4", "hostname", "os", "exposure_score", "acr_score", "tags"}

NoDf == [isNone |-> TRUE, columns |-> {}, rows |-> <<>>]
DataFrame(cols, rows) == [isNone |-> FALSE, columns |-> cols, rows |-> rows]

\* df.empty
empty(df) == Len(df.rows) = 0 \/ df.columns = {}

FileMissing == [kind |-> "missing", df |-> NoDf]
FileCorrupt == [kind |-> "corrupt", df |-> NoDf]
FileOk(df) == [kind |-> "ok", df |-> df]

\* load_dataframe: the dataframe, FileNotFoundError, or another exception of
\* the reader (a file that is not valid Parquet/CSV).
load_dataframe(f) ==
    IF f.kind = "ok" THEN [exc |-> "none", df |-> f.df]
    ELSE IF f.kind = "missing" THEN [exc |-> "FileNotFoundError", df |-> NoDf]
    ELSE [exc |-> "Exception", df |-> NoDf]

\* save_dataframe
save_dataframe(df) == FileOk(df)

(***************************************************************************)
(* get_client: the two keys as read from the environment.  A key is        *)
(* "unset" (os.getenv gives None), "empty" or "set".                       *)
(***************************************************************************)
EnvValues == {"unset", "empty", "set"}

\* variant of the key test that looks at the access key alone
keys_missing_access_only(ak, sk) == ak # "set"

\* not access_key or not secret_key
keys_missing(ak, sk) == ak # "set" \/ sk # "set"

\* get_client: exits the process with status 1, or returns the client
get_client(ak, sk) ==
    IF keys_missing(ak, sk) THEN [exit |-> TRUE, client |-> "None"]
    ELSE [exit |-> FALSE, client |-> "client"]

(***************************************************************************)
(* list_successful_scans.  resp is the answer of tio.scans.list(): an      *)
(* exception, or the scans.                                                *)
(***************************************************************************)
\* scan.get('id'): None when the key is absent, or the identifier
NoScanId == [isNone |-> TRUE, n |-> 0]
ScanId(n) == [isNone |-> FALSE, n |-> n]
Scan(id, st) == [id |-> id, status |-> st]

\* variant of the status test that only leaves out running scans
is_completed_not_running(scan) == scan.status # "running"

\* scan.get('status') == 'completed'
is_completed(scan) == scan.status = "completed"

\* f"{scan.get('id'):<10} ...": formatting None with a width raises TypeError
print_fails(scan) == scan.id.isNone

\* the loop over scans: the rows printed so far and whether a print raised,
\* which ends the loop
RECURSIVE print_scans(_, _)
print_scans(scans, printed) ==
    IF scans = <<>> THEN [printed |-> printed, failed |-> FALSE]
    ELSE IF ~is_completed(Head(scans)) THEN print_scans(Tail(scans), printed)
    ELSE IF print_fails(Head(scans)) THEN [printed |-> printed, failed |-> TRUE]
    ELSE print_scans(Tail(scans), Append(printed, Head(scans)))

\* error: "Error listing scans" was printed; reported: the total line was
\* printed, with total
list_successful_scans(resp) ==
    LET loop == print_scans(resp.scans, <<>>)
    IN  IF resp.exc
        THEN [op |-> "list_scans", error |-> TRUE, printed |-> <<>>,
              reported |-> FALSE, total |-> 0, raised |-> FALSE]
        ELSE IF loop.failed
        THEN [op |-> "list_scans", error |-> TRUE, printed |-> loop.printed,
              reported |-> FALSE, total |-> Len(loop.printed), raised |-> FALSE]
        ELSE [op |-> "list_scans", error |-> FALSE, printed |-> loop.printed,
              reported |-> TRUE, total |-> Len(loop.printed), raised |-> FALSE]

(***************************************************************************)
(* Asset export.  An asset of the export stream has list-valued ipv4s,     *)
(* hostnames and operating_system, each possibly missing or None.          *)
(***************************************************************************)
\* variant of the first-element rule that takes the last element
first_or_last(xs, default) == IF Len(xs) > 0 THEN xs[Len(xs)] ELSE default

\* xs[0] if xs else default
first_or(xs, default) == IF Len(xs) > 0 THEN xs[1] ELSE default

\* the flat_asset dictionary of export_assets_by_tag
flat_asset_by_tag(asset) ==
    [id |-> asset.id,
     ipv4 |-> first_or(or_empty(asset.ipv4s), EmptyStr),
     hostname |-> first_or(or_empty(asset.hostnames), EmptyStr),
     os |-> first_or(or_empty(asset.operating_system), Unknown),
     exposure_score |-> get_default0(asset.exposure_score),
     acr_score |-> get_default0(asset.acr_score),
     tags |-> get_default_list(asset.tags)]

\* the flat_asset dictionary of export_all_assets
flat_asset_all(asset) ==
    [id |-> asset.id,
     ipv4 |-> first_or(or_empty(asset.ipv4s), EmptyStr),
     hostname |-> first_or(or_empty(asset.hostnames), EmptyStr),
     os |-> first_or(or_empty(asset.operating_system), Unknown),
     exposure_score |-> get_default0(asset.exposure_score),
     acr_score |-> get_default0(asset.acr_score),
     tags |-> get_default_list(asset.tags)]

\* The export iterator yields its items and then ends, or raises exc
\* ("TioExportsError" or "Exception") after them; exc = "none" is a normal end.
\* The result: the dataframe returned (NoDf is None), the file afterwards,
\* the records collected and the message printed.
export_assets_by_tag(it, f) ==
    LET asset_data == [i \in 1..Len(it.items) |-> flat_asset_by_tag(it.items[i])]
        df == DataFrame(AllColumns, asset_data)
    IN  IF it.exc = "TioExportsError"
        THEN [op |-> "export_assets", ret |-> NoDf, file |-> f, asset_data |-> asset_data,
              printed |-> "Export job error", raised |-> FALSE]
        ELSE IF it.exc = "Exception"
        THEN [op |-> "export_assets", ret |-> NoDf, file |-> f, asset_data |-> asset_data,
              printed |-> "Unexpected error", raised |-> FALSE]
        ELSE IF asset_data = <<>>
        THEN [op |-> "export_assets", ret |-> NoDf, file |-> f, asset_data |-> asset_data,
              printed |-> "No assets found", raised |-> FALSE]
        ELSE [op |-> "export_assets", ret |-> df, file |-> save_dataframe(df),
              asset_data |-> asset_data, printed |-> "exported", raised |-> FALSE]

\* variant of the export that writes whatever was collected, also after a
\* failure of the stream
export_all_assets_early_write(it, f) ==
    LET asset_data == [i \in 1..Len(it.items) |-> flat_asset_all(it.items[i])]
        df == DataFrame(AllColumns, asset_data)
    IN  IF asset_data = <<>>
        THEN [op |-> "export_all", ret |-> NoDf, file |-> f, asset_data |-> asset_data,
              printed |-> "No assets found", raised |-> FALSE]
        ELSE IF it.exc = "none"
        THEN [op |-> "export_all", ret |-> df, file |-> save_dataframe(df),
              asset_data |-> asset_data, printed |-> "exported", raised |-> FALSE]
        ELSE [op |-> "export_all", ret |-> NoDf, file |-> save_dataframe(df),
              asset_data |-> asset_data, printed |-> "Unexpected error",
              raised |-> FALSE]

export_all_assets(it, f) ==
    LET asset_data == [i \in 1..Len(it.items) |-> flat_asset_all(it.items[i])]
        df == DataFrame(AllColumns, asset_data)
    IN  IF it.exc = "TioExportsError"
        THEN [op |-> "export_all", ret |-> NoDf, file |-> f, asset_data |-> asset_data,
              printed |-> "Export job error", raised |-> FALSE]
        ELSE IF it.exc = "Exception"
        THEN [op |-> "export_all", ret |-> NoDf, file |-> f, asset_data |-> asset_data,
              printed |-> "Unexpected error", raised |-> FALSE]
        ELSE IF asset_data = <<>>
        THEN [op |-> "export_all", ret |-> NoDf, file |-> f, asset_data |-> asset_data,
              printed |-> "No assets found", raised |-> FALSE]
        ELSE [op |-> "export_all", ret |-> df, file |-> save_dataframe(df),
              asset_data |-> asset_data, printed |-> "exported", raised |-> FALSE]

(***************************************************************************)
(* get_asset_info.  f is the data file, live the answer of                 *)
(* tio.assets.list() (an exception or the assets), detail_ok whether       *)
(* tio.assets.details answers.  asset_uuid and file_data start as None.    *)
(***************************************************************************)
NoneUuid == [isNone |-> TRUE, s |-> EmptyStr]
Uuid(s) == [isNone |-> FALSE, s |-> s]

\* variant of the identifier test that accepts an empty identifier
not_uuid_none_only(u) == u.isNone

\* not asset_uuid
not_uuid(u) == u.isNone \/ ~truthy(u.s)

\* hostname_lower == row_hostname or hostname_lower == row_ipv4
row_matches(row, hostname) ==
    \/ lower(hostname) = lower(row.hostname)
    \/ lower(hostname) = lower(row.ipv4)

\* index of the row at which the loop over df.iterrows() breaks, 0 if none
first_match(rows, hostname) ==
    IF \E i \in 1..Len(rows) : row_matches(rows[i], hostname)
    THEN CHOOSE i \in 1..Len(rows) :
            /\ row_matches(rows[i], hostname)
            /\ \A j \in 1..(i - 1) : ~row_matches(rows[j], hostname)
    ELSE 0

\* hostname + fqdn + netbios_name + ipv4 of a live asset
all_names(asset) ==
    or_empty(asset.hostname) \o or_empty(asset.fqdn)
        \o or_empty(asset.netbios_name) \o or_empty(asset.ipv4)

\* any(h.lower() == hostname.lower() for h in all_names)
live_matches(asset, hostname) ==
    \E i \in 1..Len(all_names(asset)) : lower(all_names(asset)[i]) = lower(hostname)

\* index of the live asset at which the loop over tio.assets.list() breaks
first_live_match(assets, hostname) ==
    IF \E i \in 1..Len(assets) : live_matches(assets[i], hostname)
    THEN CHOOSE i \in 1..Len(assets) :
            /\ live_matches(assets[i], hostname)
            /\ \A j \in 1..(i - 1) : ~live_matches(assets[j], hostname)
    ELSE 0

\* variant of the data-file step that never keeps the matching row
cache_step_no_file_data(f, hostname) ==
    LET ld == load_dataframe(f)
        k == first_match(ld.df.rows, hostname)
    IN  IF ld.exc = "Exception"
        THEN [raised |-> TRUE, uuid |-> NoneUuid, hasData |-> FALSE, row |-> 0]
        ELSE IF ld.exc = "FileNotFoundError" \/ k = 0
        THEN [raised |-> FALSE, uuid |-> NoneUuid, hasData |-> FALSE, row |-> 0]
        ELSE [raised |-> FALSE, uuid |-> Uuid(ld.df.rows[k].id), hasData |-> FALSE,
              row |-> k]

\* the result of the data-file step: raised (an exception other than
\* FileNotFoundError leaves the function through the outer handler),
\* asset_uuid, file_data (hasData)
cache_step(f, hostname) ==
    LET ld == load_dataframe(f)
        k == first_match(ld.df.rows, hostname)
    IN  IF ld.exc = "Exception"
        THEN [raised |-> TRUE, uuid |-> NoneUuid, hasData |-> FALSE, row |-> 0]
        ELSE IF ld.exc = "FileNotFoundError" \/ k = 0
        THEN [raised |-> FALSE, uuid |-> NoneUuid, hasData |-> FALSE, row |-> 0]
        ELSE [raised |-> FALSE, uuid |-> Uuid(ld.df.rows[k].id), hasData |-> TRUE,
              row |-> k]

\* the result of the live step, entered when not asset_uuid
live_step(live, hostname, uuid) ==
    LET k == first_live_match(live.assets, hostname)
    IN  IF live.exc THEN [raised |-> TRUE, uuid |-> uuid]
        ELSE IF k = 0 THEN [raised |-> FALSE, uuid |-> uuid]
        ELSE [raised |-> FALSE, uuid |-> Uuid(live.assets[k].id)]

AssetInfoRet(calls, uuid, kind, printed, row) ==
    [op |-> "asset_info", calls |-> calls, asset_uuid |-> uuid, ret |-> kind,
     printed |-> printed, file_row |-> row, raised |-> FALSE]

get_asset_info(f, hostname, live, detail_ok) ==
    LET c == cache_step(f, hostname)
        l == live_step(live, hostname, c.uuid)
        uuid == IF not_uuid(c.uuid) THEN l.uuid ELSE c.uuid
        calls1 == <<"load_dataframe">>
        calls2 == IF not_uuid(c.uuid) THEN calls1 \o <<"assets.list">> ELSE calls1
    IN  IF c.raised
        THEN AssetInfoRet(calls1, NoneUuid, "None", "Error retrieving asset info", 0)
        ELSE IF not_uuid(c.uuid) /\ l.raised
        THEN AssetInfoRet(calls2, c.uuid, "None", "Error retrieving asset info", c.row)
        ELSE IF not_uuid(uuid)
        THEN AssetInfoRet(calls2, uuid, "None", "not found", c.row)
        ELSE IF detail_ok
        THEN AssetInfoRet(calls2 \o <<"assets.details">>, uuid, "details",
                          "details", c.row)
        ELSE IF c.hasData
        THEN AssetInfoRet(calls2 \o <<"assets.details">>, uuid, "file_data",
                          "Limited data from file", c.row)
        ELSE AssetInfoRet(calls2 \o <<"assets.details">>, uuid, "None",
                          "Error retrieving asset info", c.row)

(***************************************************************************)
(* search_assets.                                                          *)
(***************************************************************************)
Space == <<" ">>

\* f"{row.get('hostname', '')} {row.get('ipv4', '')} {row.get('id', '')}".lower()
searchable(row) == lower(row.hostname \o Space \o row.ipv4 \o Space \o row.id)

\* query_lower in searchable
file_row_found(row, query) == contains(searchable(row), lower(query))

\* hostnames + fqdns + netbios + ipv4s + ipv6s of a live asset
all_fields(asset) ==
    or_empty(asset.hostname) \o or_empty(asset.fqdn) \o or_empty(asset.netbios_name)
        \o or_empty(asset.ipv4) \o or_empty(asset.ipv6)

\* any(query_lower in str(field).lower() for field in all_fields)
live_asset_found(asset, query) ==
    \E i \in 1..Len(all_fields(asset)) :
        contains(lower(all_fields(asset)[i]), lower(query))

\* match_info of a row of the file
file_match_info(row) ==
    [id |-> row.id, hostname |-> row.hostname, ipv4 |-> row.ipv4]

\* match_info of a live asset
live_match_info(asset) ==
    [id |-> asset.id,
     hostname |-> first_or(or_empty(asset.hostname), NA),
     ipv4 |-> first_or(or_empty(asset.ipv4), NA)]

file_matches(rows, query) ==
    LET found(row) == file_row_found(row, query)
        hits == SelectSeq(rows, found)
    IN  [i \in 1..Len(hits) |-> file_match_info(hits[i])]

live_matches_of(assets, query) ==
    LET found(asset) == live_asset_found(asset, query)
        hits == SelectSeq(assets, found)
    IN  [i \in 1..Len(hits) |-> live_match_info(hits[i])]

\* 'Assets': matches[:50]
SearchLimit == 50

\* variant that returns and counts the printed part of the matches
SearchRet_of_shown(calls, matches, printed) ==
    LET shown == SubSeq(matches, 1, IF Len(matches) > SearchLimit THEN SearchLimit
                                    ELSE Len(matches))
    IN  [op |-> "search_assets", calls |-> calls, ret |-> shown, printed |-> printed,
         total |-> Len(shown), shown |-> shown,
         note |-> Len(matches) > SearchLimit, raised |-> FALSE]

SearchRet(calls, matches, printed) ==
    [op |-> "search_assets", calls |-> calls, ret |-> matches, printed |-> printed,
     total |-> Len(matches),
     shown |-> SubSeq(matches, 1, IF Len(matches) > SearchLimit THEN SearchLimit
                                   ELSE Len(matches)),
     note |-> Len(matches) > SearchLimit, raised |-> FALSE]

search_assets(f, query, live) ==
    LET ld == load_dataframe(f)
        matches == IF ld.exc = "none" THEN file_matches(ld.df.rows, query)
                   ELSE live_matches_of(live.assets, query)
        calls == IF ld.exc = "FileNotFoundError"
                 THEN <<"load_dataframe", "assets.list">> ELSE <<"load_dataframe">>
    IN  IF ld.exc = "Exception" \/ (ld.exc = "FileNotFoundError" /\ live.exc)
        THEN SearchRet(calls, <<>>, "Error searching assets")
        ELSE IF matches = <<>>
        THEN SearchRet(calls, <<>>, "No assets found")
        ELSE SearchRet(calls, matches, "output")

(***************************************************************************)
(* get_plugin_info.  plugin is the answer of tio.plugins.plugin_details    *)
(* (an exception or the attribute array), affected the stream of           *)
(* tio.workbenches.vuln_assets.  The attributes dictionary maps a name to  *)
(* a single value (isList FALSE, one element) or to a list of values.      *)
(***************************************************************************)
EmptyDict == [k \in {} |-> 0]

\* variant of the loop body that drops a third and later value of a name
add_attribute_drop(attributes, key, value) ==
    IF key \in DOMAIN attributes
    THEN IF attributes[key].isList
         THEN attributes
         ELSE [attributes EXCEPT ![key] =
                  [isList |-> TRUE, vals |-> <<attributes[key].vals[1], value>>]]
    ELSE [k \in DOMAIN attributes \cup {key} |->
             IF k = key THEN [isList |-> FALSE, vals |-> <<value>>]
             ELSE attributes[k]]

\* one turn of the loop over attributes_list
add_attribute(attributes, key, value) ==
    IF key \in DOMAIN attributes
    THEN IF attributes[key].isList
         THEN [attributes EXCEPT ![key].vals = Append(@, value)]
         ELSE [attributes EXCEPT ![key] =
                  [isList |-> TRUE, vals |-> <<attributes[key].vals[1], value>>]]
    ELSE [k \in DOMAIN attributes \cup {key} |->
             IF k = key THEN [isList |-> FALSE, vals |-> <<value>>]
             ELSE attributes[k]]

RECURSIVE collapse_attributes(_, _)
collapse_attributes(attributes_list, attributes) ==
    IF attributes_list = <<>> THEN attributes
    ELSE collapse_attributes(
            Tail(attributes_list),
            add_attribute(attributes, Head(attributes_list).attribute_name,
                          Head(attributes_list).attribute_value))

\* affected_assets[:20]
PluginLimit == 20

\* the 'CVE' entry of friendly_output
cve_of(attributes) ==
    IF "cve" \notin DOMAIN attributes THEN <<>>
    ELSE IF attributes["cve"].isList THEN attributes["cve"].vals
    ELSE IF attributes["cve"].vals[1] # "" THEN attributes["cve"].vals
    ELSE <<>>

get_plugin_info(plugin, affected) ==
    LET attributes == collapse_attributes(plugin.attributes, EmptyDict)
        affected_assets == affected.items
        n == Len(affected_assets)
    IN  IF plugin.exc
        THEN [op |-> "plugin_info", ret |-> "None", attributes |-> EmptyDict,
              cve |-> <<>>, count |-> 0, shown |-> <<>>, note |-> FALSE,
              warned |-> FALSE, printed |-> "Error retrieving plugin info",
              raised |-> FALSE]
        ELSE [op |-> "plugin_info", ret |-> "friendly_output",
              attributes |-> attributes, cve |-> cve_of(attributes),
              count |-> n,
              shown |-> SubSeq(affected_assets, 1,
                               IF n > PluginLimit THEN PluginLimit ELSE n),
              note |-> n > PluginLimit, warned |-> affected.exc,
              printed |-> "output", raised |-> FALSE]

(***************************************************************************)
(* get_top_exposed_assets.                                                 *)
(***************************************************************************)
\* pd.to_numeric(errors='coerce'): a number, or NaN
to_numeric(cell) ==
    IF cell.t \in {"num", "numstr"} THEN [nan |-> FALSE, n |-> cell.n]
    ELSE [nan |-> TRUE, n |-> 0]

\* .fillna(0)
fillna0(x) == IF x.nan THEN 0 ELSE x.n

\* df['exposure_score'] = pd.to_numeric(df['exposure_score'], errors='coerce').fillna(0)
coerce_scores(df) ==
    [df EXCEPT !.rows =
        [i \in 1..Len(df.rows) |->
            [df.rows[i] EXCEPT !.exposure_score =
                Num(fillna0(to_numeric(df.rows[i].exposure_score)))]]]

Orders(n) ==
    {p \in [1..n -> 1..n] : \A i, j \in 1..n : i # j => p[i] # p[j]}

\* variant of the sort that orders ascending
sort_values_asc(df) ==
    {p \in Orders(Len(df.rows)) :
        \A i, j \in 1..Len(df.rows) :
            i < j => df.rows[p[i]].exposure_score.n <= df.rows[p[j]].exposure_score.n}

\* df.sort_values(by='exposure_score', ascending=False): the sort is asked
\* for with the default kind ('quicksort'), which orders rows of equal score
\* in no guaranteed way; every descending order is a possible outcome.
sort_values_desc(df) ==
    {p \in Orders(Len(df.rows)) :
        \A i, j \in 1..Len(df.rows) :
            i < j => df.rows[p[i]].exposure_score.n >= df.rows[p[j]].exposure_score.n}

\* .head(n) of a sequence: python's seq[:n]
head(seq, n) ==
    IF n >= 0 THEN SubSeq(seq, 1, IF n < Len(seq) THEN n ELSE Len(seq))
    ELSE SubSeq(seq, 1, IF Len(seq) + n > 0 THEN Len(seq) + n ELSE 0)

\* the line printed for a row of top_assets
printed_row(row) ==
    [aes |-> row.exposure_score.n, ipv4 |-> row.ipv4, hostname |-> row.hostname]

\* variant of the ranking that has no early return for a missing column and
\* fails on the column access
get_top_exposed_assets_no_guard(df, top_n) ==
    IF df.isNone \/ empty(df)
    THEN {[op |-> "top_assets", printed |-> "No data available", df |-> df,
           order |-> <<>>, lines |-> <<>>, raised |-> FALSE]}
    ELSE IF "exposure_score" \notin df.columns
    THEN {[op |-> "top_assets", printed |-> "KeyError", df |-> df,
           order |-> <<>>, lines |-> <<>>, raised |-> TRUE]}
    ELSE LET c == coerce_scores(df)
         IN  {[op |-> "top_assets", printed |-> "table", df |-> c,
               order |-> head(p, top_n),
               lines |-> [i \in 1..Len(head(p, top_n)) |->
                             printed_row(c.rows[head(p, top_n)[i]])],
               raised |-> FALSE] : p \in sort_values_desc(c)}

\* The set of possible results: the message, the dataframe afterwards (the
\* caller's object, changed in place), the input positions of the rows printed
\* (order) and the lines printed.
get_top_exposed_assets(df, top_n) ==
    IF df.isNone \/ empty(df)
    THEN {[op |-> "top_assets", printed |-> "No data available", df |-> df,
           order |-> <<>>, lines |-> <<>>, raised |-> FALSE]}
    ELSE IF "exposure_score" \notin df.columns
    THEN {[op |-> "top_assets", printed |-> "Warning: field not found", df |-> df,
           order |-> <<>>, lines |-> <<>>, raised |-> FALSE]}
    ELSE LET c == coerce_scores(df)
         IN  {[op |-> "top_assets", printed |-> "table", df |-> c,
               order |-> head(p, top_n),
               lines |-> [i \in 1..Len(head(p, top_n)) |->
                             printed_row(c.rows[head(p, top_n)[i]])],
               raised |-> FALSE] : p \in sort_values_desc(c)}

(***************************************************************************)
(* convert_to_csv / convert_to_json: imported by main from modules.helper  *)
(* but not part of the helper module at hand; modelled from the            *)
(* specification: the input file is loaded and rewritten in the other      *)
(* format, an error is caught at the operation boundary and printed.       *)
(***************************************************************************)
convert_to_csv(f) ==
    [op |-> "to_csv", printed |-> IF load_dataframe(f).exc = "none" THEN "converted"
                                  ELSE "Error", raised |-> FALSE]

convert_to_json(f) ==
    [op |-> "to_json", printed |-> IF load_dataframe(f).exc = "none" THEN "converted"
                                   ELSE "Error", raised |-> FALSE]

(***************************************************************************)
(* Inputs of a run of main: the command line, the environment, the file    *)
(* at the input/output path and the answers of the vendor API.             *)
(***************************************************************************)
HostA == <<"a">>
HostAb == <<"A", "b">>
Ip1 == <<"1">>
Id1 == <<"u", "1">>
Id2 == <<"u", "2">>

Row(id, ipv4, hostname, score) ==
    [id |-> id, ipv4 |-> ipv4, hostname |-> hostname, os |-> Unknown,
     exposure_score |-> score, acr_score |-> Num(0), tags |-> List(<<>>)]

NoScoreColumns == AllColumns \ {"exposure_score"}

\* the files a run of main may find
MainFiles ==
    {FileMissing, FileCorrupt,
     FileOk(DataFrame(AllColumns, <<>>)),
     FileOk(DataFrame(NoScoreColumns, <<Row(Id1, Ip1, HostA, MissingScore)>>)),
     FileOk(DataFrame(AllColumns, <<Row(Id1, Ip1, HostA, Junk),
                                    Row(Id2, Ip1, HostAb, NumStr(1))>>))}

NoArg == [isNone |-> TRUE, s |-> EmptyStr]
Arg(s) == [isNone |-> FALSE, s |-> s]

\* truthiness of an optional argument
given(a) == ~a.isNone /\ truthy(a.s)

ArgsSpace ==
    [list_scans : BOOLEAN, export_assets : BOOLEAN, export_all : BOOLEAN,
     asset_info : {NoArg, Arg(HostA)}, plugin_info : {NoArg, Arg(Ip1)},
     search_assets : {NoArg, Arg(HostA)}, top_assets : BOOLEAN, all : BOOLEAN,
     to_csv : BOOLEAN, to_json : BOOLEAN, top : {MaxTop}]

ExportAsset(id, ipv4s, hostnames, score) ==
    [id |-> id, ipv4s |-> ipv4s, hostnames |-> hostnames,
     operating_system |-> MissingList, exposure_score |-> score,
     acr_score |-> MissingScore, tags |-> MissingList]

LiveAsset(id, hostname, ipv4) ==
    [id |-> id, hostname |-> hostname, fqdn |-> NoneList,
     netbios_name |-> MissingList, ipv4 |-> ipv4, ipv6 |-> MissingList]

MainScans ==
    {[exc |-> TRUE, scans |-> <<>>],
     [exc |-> FALSE, scans |-> <<Scan(ScanId(1), "completed"),
                                  Scan(ScanId(2), "running")>>]}

MainExports ==
    {[items |-> <<>>, exc |-> "TioExportsError"],
     [items |-> <<>>, exc |-> "none"],
     [items |-> <<ExportAsset(Id1, List(<<Ip1>>), List(<<>>), Num(1))>>, exc |-> "none"],
     [items |-> <<ExportAsset(Id1, List(<<Ip1>>), List(<<>>), Num(1))>>,
      exc |-> "Exception"]}

MainLive ==
    {[exc |-> TRUE, assets |-> <<>>],
     [exc |-> FALSE, assets |-> <<LiveAsset(Id2, List(<<HostA>>), List(<<Ip1>>))>>]}

MainPlugins ==
    {[exc |-> TRUE, attributes |-> <<>>],
     [exc |-> FALSE,
      attributes |-> <<[attribute_name |-> "cve", attribute_value |-> "v1"]>>]}

MainAffected ==
    {[items |-> <<>>, exc |-> TRUE], [items |-> <<Id1>>, exc |-> FALSE]}

(***************************************************************************)
(* main.                                                                   *)
(***************************************************************************)
has_command ==
    \/ args.list_scans \/ args.export_assets \/ args.export_all
    \/ given(args.asset_info) \/ given(args.plugin_info) \/ given(args.search_assets)
    \/ args.top_assets \/ args.all \/ args.to_csv \/ args.to_json

needs_client ==
    \/ args.list_scans \/ args.export_assets \/ args.export_all
    \/ given(args.asset_info) \/ given(args.plugin_info) \/ given(args.search_assets)
    \/ args.all

NoRet == [op |-> "none", raised |-> FALSE]
NoInp == [op |-> "none"]

Init ==
    /\ args \in ArgsSpace
    /\ access_key \in EnvValues
    /\ secret_key \in EnvValues
    /\ file \in MainFiles
    /\ pc = "start"
    /\ status = "running"
    /\ tio = "None"
    /\ df_assets = NoDf
    /\ executed = <<>>
    /\ inp = NoInp
    /\ ret = NoRet

\* if not has_command: print, return
Start ==
    /\ pc = "start"
    /\ IF has_command
       THEN pc' = "client" /\ UNCHANGED status
       ELSE pc' = "done" /\ status' = "returned"
    /\ UNCHANGED <<args, access_key, secret_key, tio, df_assets, file, executed, inp, ret>>

\* if needs_client: tio = get_client()
GetClient ==
    /\ pc = "client"
    /\ IF needs_client
       THEN IF get_client(access_key, secret_key).exit
            THEN pc' = "done" /\ status' = "exit1" /\ UNCHANGED tio
            ELSE /\ pc' = "list_scans"
                 /\ tio' = get_client(access_key, secret_key).client
                 /\ UNCHANGED status
       ELSE pc' = "list_scans" /\ UNCHANGED <<status, tio>>
    /\ UNCHANGED <<args, access_key, secret_key, df_assets, file, executed, inp, ret>>

\* if args.list_scans or args.all: list_successful_scans(tio)
ListScans ==
    /\ pc = "list_scans"
    /\ pc' = "export"
    /\ IF args.list_scans \/ args.all
       THEN \E resp \in MainScans :
               /\ inp' = [op |-> "list_scans", resp |-> resp]
               /\ ret' = list_successful_scans(resp)
               /\ executed' = Append(executed, "list_scans")
       ELSE UNCHANGED <<inp, ret, executed>>
    /\ UNCHANGED <<args, status, access_key, secret_key, tio, df_assets, file>>

\* if args.export_all: ... elif args.export_assets or args.all: ...
Export ==
    /\ pc = "export"
    /\ pc' = "asset_info"
    /\ IF args.export_all
       THEN \E it \in MainExports :
               /\ inp' = [op |-> "export_all", it |-> it]
               /\ ret' = export_all_assets(it, file)
               /\ df_assets' = export_all_assets(it, file).ret
               /\ file' = export_all_assets(it, file).file
               /\ executed' = Append(executed, "export_all")
       ELSE IF args.export_assets \/ args.all
       THEN \E it \in MainExports :
               /\ inp' = [op |-> "export_assets", it |-> it]
               /\ ret' = export_assets_by_tag(it, file)
               /\ df_assets' = export_assets_by_tag(it, file).ret
               /\ file' = export_assets_by_tag(it, file).file
               /\ executed' = Append(executed, "export_assets")
       ELSE UNCHANGED <<inp, ret, df_assets, file, executed>>
    /\ UNCHANGED <<args, status, access_key, secret_key, tio>>

\* if args.asset_info: get_asset_info(tio, args.asset_info, args.input)
AssetInfo ==
    /\ pc = "asset_info"
    /\ pc' = "plugin_info"
    /\ IF given(args.asset_info)
       THEN \E live \in MainLive, detail_ok \in BOOLEAN :
               /\ inp' = [op |-> "asset_info", file |-> file,
                          hostname |-> args.asset_info.s, live |-> live,
                          detail_ok |-> detail_ok]
               /\ ret' = get_asset_info(file, args.asset_info.s, live, detail_ok)
               /\ executed' = Append(executed, "asset_info")
       ELSE UNCHANGED <<inp, ret, executed>>
    /\ UNCHANGED <<args, status, access_key, secret_key, tio, df_assets, file>>

\* if args.plugin_info: get_plugin_info(tio, args.plugin_info)
PluginInfo ==
    /\ pc = "plugin_info"
    /\ pc' = "search_assets"
    /\ IF given(args.plugin_info)
       THEN \E plugin \in MainPlugins, affected \in MainAffected :
               /\ inp' = [op |-> "plugin_info", plugin |-> plugin,
                          affected |-> affected]
               /\ ret' = get_plugin_info(plugin, affected)
               /\ executed' = Append(executed, "plugin_info")
       ELSE UNCHANGED <<inp, ret, executed>>
    /\ UNCHANGED <<args, status, access_key, secret_key, tio, df_assets, file>>

\* if args.search_assets: search_assets(tio, args.search_assets, args.input)
SearchAssets ==
    /\ pc = "search_assets"
    /\ pc' = "top_assets"
    /\ IF given(args.search_assets)
       THEN \E live \in MainLive :
               /\ inp' = [op |-> "search_assets", file |-> file,
                          query |-> args.search_assets.s, live |-> live]
               /\ ret' = search_assets(file, args.search_assets.s, live)
               /\ executed' = Append(executed, "search_assets")
       ELSE UNCHANGED <<inp, ret, executed>>
    /\ UNCHANGED <<args, status, access_key, secret_key, tio, df_assets, file>>

\* variant of the top-assets step that loads the input file even when an
\* export has left a dataframe in memory
TopAssets_always_load ==
    /\ pc = "top_assets"
    /\ IF args.top_assets \/ args.all
       THEN IF load_dataframe(file).exc = "FileNotFoundError"
            THEN /\ pc' = "done" /\ status' = "returned"
                 /\ inp' = [op |-> "load_dataframe", file |-> file]
                 /\ ret' = [op |-> "load_dataframe", raised |-> FALSE]
                 /\ executed' = Append(executed, "load_dataframe")
                 /\ UNCHANGED df_assets
            ELSE IF load_dataframe(file).exc = "Exception"
            THEN /\ pc' = "done" /\ status' = "raised"
                 /\ inp' = [op |-> "load_dataframe", file |-> file]
                 /\ ret' = [op |-> "load_dataframe", raised |-> TRUE]
                 /\ executed' = Append(executed, "load_dataframe")
                 /\ UNCHANGED df_assets
            ELSE \E r \in get_top_exposed_assets(load_dataframe(file).df, args.top) :
                    /\ IF r.raised
                       THEN pc' = "done" /\ status' = "raised"
                       ELSE pc' = "to_csv" /\ UNCHANGED status
                    /\ inp' = [op |-> "top_assets", df |-> load_dataframe(file).df,
                               top_n |-> args.top]
                    /\ ret' = r
                    /\ df_assets' = r.df
                    /\ executed' = executed \o <<"load_dataframe", "top_assets">>
       ELSE pc' = "to_csv" /\ UNCHANGED <<status, inp, ret, df_assets, executed>>
    /\ UNCHANGED <<args, access_key, secret_key, tio, file>>

\* if args.top_assets or args.all: load the input file when df_assets is
\* None (a missing file ends main, another exception leaves main), then
\* get_top_exposed_assets(df_assets, args.top)
TopAssets ==
    /\ pc = "top_assets"
    /\ IF args.top_assets \/ args.all
       THEN IF df_assets.isNone /\ load_dataframe(file).exc = "FileNotFoundError"
            THEN /\ pc' = "done" /\ status' = "returned"
                 /\ inp' = [op |-> "load_dataframe", file |-> file]
                 /\ ret' = [op |-> "load_dataframe", raised |-> FALSE]
                 /\ executed' = Append(executed, "load_dataframe")
                 /\ UNCHANGED df_assets
            ELSE IF df_assets.isNone /\ load_dataframe(file).exc = "Exception"
            THEN /\ pc' = "done" /\ status' = "raised"
                 /\ inp' = [op |-> "load_dataframe", file |-> file]
                 /\ ret' = [op |-> "load_dataframe", raised |-> TRUE]
                 /\ executed' = Append(executed, "load_dataframe")
                 /\ UNCHANGED df_assets
            ELSE LET df == IF df_assets.isNone THEN load_dataframe(file).df
                           ELSE df_assets
                 IN  \E r \in get_top_exposed_assets(df, args.top) :
                        /\ IF r.raised
                           THEN pc' = "done" /\ status' = "raised"
                           ELSE pc' = "to_csv" /\ UNCHANGED status
                        /\ inp' = [op |-> "top_assets", df |-> df, top_n |-> args.top]
                        /\ ret' = r
                        /\ df_assets' = r.df
                        /\ executed' =
                              IF df_assets.isNone
                              THEN executed \o <<"load_dataframe", "top_assets">>
                              ELSE Append(executed, "top_assets")
       ELSE pc' = "to_csv" /\ UNCHANGED <<status, inp, ret, df_assets, executed>>
    /\ UNCHANGED <<args, access_key, secret_key, tio, file>>

\* if args.to_csv: convert_to_csv(args.input, ...)
ToCsv ==
    /\ pc = "to_csv"
    /\ pc' = "to_json"
    /\ IF args.to_csv
       THEN /\ inp' = [op |-> "to_csv", file |-> file]
            /\ ret' = convert_to_csv(file)
            /\ executed' = Append(executed, "to_csv")
       ELSE UNCHANGED <<inp, ret, executed>>
    /\ UNCHANGED <<args, status, access_key, secret_key, tio, df_assets, file>>

\* if args.to_json: convert_to_json(args.input, ...); main returns
ToJson ==
    /\ pc = "to_json"
    /\ pc' = "done"
    /\ status' = "returned"
    /\ IF args.to_json
       THEN /\ inp' = [op |-> "to_json", file |-> file]
            /\ ret' = convert_to_json(file)
            /\ executed' = Append(executed, "to_json")
       ELSE UNCHANGED <<inp, ret, executed>>
    /\ UNCHANGED <<args, access_key, secret_key, tio, df_assets, file>>

Next ==
    \/ Start \/ GetClient \/ ListScans \/ Export \/ AssetInfo \/ PluginInfo
    \/ SearchAssets \/ TopAssets \/ ToCsv \/ ToJson

Spec == Init /\ [][Next]_vars

(***************************************************************************)
(* The operations on their own: a call with inputs drawn from bounded      *)
(* sets, outside a run of main.  pc is "call" before and "returned" after. *)
(***************************************************************************)
\* sequences over S of length at most n
SeqsUpTo(S, n) == UNION {[1..k -> S] : k \in 0..n}

IdleArgs ==
    [list_scans |-> FALSE, export_assets |-> FALSE, export_all |-> FALSE,
     asset_info |-> NoArg, plugin_info |-> NoArg, search_assets |-> NoArg,
     top_assets |-> FALSE, all |-> FALSE, to_csv |-> FALSE, to_json |-> FALSE,
     top |-> 5]

InitCall(inputs, files) ==
    /\ args = IdleArgs
    /\ access_key = "set"
    /\ secret_key = "set"
    /\ file \in files
    /\ pc = "call"
    /\ status = "running"
    /\ tio = "client"
    /\ df_assets = NoDf
    /\ executed = <<>>
    /\ inp \in inputs
    /\ ret = NoRet

\* ---- ranking ----
ScoreCells == {Num(n) : n \in 0..MaxScore} \cup {NumStr(1), Junk, NoneScore}

RankRows == {Row(Id1, Ip1, HostA, c) : c \in ScoreCells}

RankFrames ==
    {NoDf}
    \cup {DataFrame(AllColumns, rows) : rows \in SeqsUpTo(RankRows, MaxRankRows)}
    \cup {DataFrame(NoScoreColumns, <<Row(Id1, Ip1, HostA, MissingScore)>>)}

RankInputs ==
    {[op |-> "top_assets", df |-> df, top_n |-> n] :
        df \in RankFrames, n \in (-1)..MaxTop}

InitRank == InitCall(RankInputs, {FileMissing})

CallTopAssets ==
    /\ pc = "call"
    /\ inp.op = "top_assets"
    /\ \E r \in get_top_exposed_assets(inp.df, inp.top_n) :
          /\ ret' = r
          /\ df_assets' = r.df
    /\ pc' = "returned"
    /\ executed' = Append(executed, "top_assets")
    /\ UNCHANGED <<args, status, access_key, secret_key, tio, file, inp>>

SpecRank == InitRank /\ [][CallTopAssets]_vars

\* ---- asset info and search ----
HostB == <<"b">>
HostAB == <<"a", "B">>
QuerySpan == <<"a", " ", "1">>

LookupRows ==
    {Row(Id1, Ip1, HostA, Num(1)), Row(Id2, Ip1, HostAb, Num(1)),
     Row(EmptyStr, Ip1, HostAb, Num(1)), Row(Id2, EmptyStr, HostB, Num(1))}

LookupFiles ==
    {FileMissing, FileCorrupt}
    \cup {FileOk(DataFrame(AllColumns, rows)) : rows \in SeqsUpTo(LookupRows, MaxRows)}

LiveAssets ==
    {LiveAsset(Id1, List(<<HostAb>>), List(<<Ip1>>)),
     LiveAsset(Id2, NoneList, MissingList),
     LiveAsset(Id2, List(<<HostB, HostA>>), MissingList),
     LiveAsset(Id1, NoneList, List(<<Ip1>>))}

LiveLists ==
    {[exc |-> TRUE, assets |-> <<>>]}
    \cup {[exc |-> FALSE, assets |-> a] : a \in SeqsUpTo(LiveAssets, MaxAssets)}

AssetInfoInputs ==
    {[op |-> "asset_info", hostname |-> h, live |-> l, detail_ok |-> d] :
        h \in {HostA, HostAB, Ip1}, l \in LiveLists, d \in BOOLEAN}

InitAssetInfo == InitCall(AssetInfoInputs, LookupFiles)

CallAssetInfo ==
    /\ pc = "call"
    /\ inp.op = "asset_info"
    /\ ret' = get_asset_info(file, inp.hostname, inp.live, inp.detail_ok)
    /\ pc' = "returned"
    /\ executed' = Append(executed, "asset_info")
    /\ UNCHANGED <<args, status, access_key, secret_key, tio, df_assets, file, inp>>

SpecAssetInfo == InitAssetInfo /\ [][CallAssetInfo]_vars

SearchInputs ==
    {[op |-> "search_assets", query |-> q, live |-> l] :
        q \in {HostA, HostAB, Ip1, Id1, <<"U">>, QuerySpan, EmptyStr}, l \in LiveLists}

InitSearch == InitCall(SearchInputs, LookupFiles)

CallSearchAssets ==
    /\ pc = "call"
    /\ inp.op = "search_assets"
    /\ ret' = search_assets(file, inp.query, inp.live)
    /\ pc' = "returned"
    /\ executed' = Append(executed, "search_assets")
    /\ UNCHANGED <<args, status, access_key, secret_key, tio, df_assets, file, inp>>

SpecSearch == InitSearch /\ [][CallSearchAssets]_vars

\* ---- export ----
Ip2 == <<"2">>
Linux == <<"L">>
Win == <<"W">>

\* the forms a list-valued field of the export stream takes
FormOf(k, x, y) ==
    CASE k = 1 -> MissingList
      [] k = 2 -> NoneList
      [] k = 3 -> List(<<>>)
      [] k = 4 -> List(<<x>>)
      [] OTHER -> List(<<x, y>>)

\* the three list fields take their forms in rotation, so that every field
\* takes every form while the set stays small
ExportAssets ==
    {[id |-> Id1,
      ipv4s |-> FormOf(k, Ip1, Ip2),
      hostnames |-> FormOf((k % 5) + 1, HostA, HostB),
      operating_system |-> FormOf(((k + 1) % 5) + 1, Linux, Win),
      exposure_score |-> sc,
      acr_score |-> IF sc.t = "missing" THEN Num(2) ELSE MissingScore,
      tags |-> IF k < 3 THEN MissingList ELSE List(<<>>)] :
        k \in 1..5, sc \in {MissingScore, NoneScore, Num(1)}}

ExportStreams ==
    {[items |-> a, exc |-> e] :
        a \in SeqsUpTo(ExportAssets, MaxAssets),
        e \in {"none", "TioExportsError", "Exception"}}

ExportInputs ==
    {[op |-> o, it |-> it] : o \in {"export_all", "export_assets"}, it \in ExportStreams}

OldFile == FileOk(DataFrame(AllColumns, <<Row(Id2, Ip2, HostB, Num(2))>>))

InitExport == InitCall(ExportInputs, {FileMissing, OldFile})

CallExportAll ==
    /\ pc = "call"
    /\ inp.op = "export_all"
    /\ ret' = export_all_assets(inp.it, file)
    /\ df_assets' = export_all_assets(inp.it, file).ret
    /\ file' = export_all_assets(inp.it, file).file
    /\ pc' = "returned"
    /\ executed' = Append(executed, "export_all")
    /\ UNCHANGED <<args, status, access_key, secret_key, tio, inp>>

CallExportByTag ==
    /\ pc = "call"
    /\ inp.op = "export_assets"
    /\ ret' = export_assets_by_tag(inp.it, file)
    /\ df_assets' = export_assets_by_tag(inp.it, file).ret
    /\ file' = export_assets_by_tag(inp.it, file).file
    /\ pc' = "returned"
    /\ executed' = Append(executed, "export_assets")
    /\ UNCHANGED <<args, status, access_key, secret_key, tio, inp>>

SpecExport == InitExport /\ [][CallExportAll \/ CallExportByTag]_vars

\* ---- plugin info ----
AttrNames == {"cve", "risk_factor"}
AttrValues == {"", "v1", "v2"}

Attributes ==
    {[attribute_name |-> n, attribute_value |-> v] : n \in AttrNames, v \in AttrValues}

PluginAnswers ==
    {[exc |-> TRUE, attributes |-> <<>>]}
    \cup {[exc |-> FALSE, attributes |-> a] : a \in SeqsUpTo(Attributes, MaxAttrs)}

AffectedStreams ==
    {[items |-> a, exc |-> e] : a \in SeqsUpTo({Id1}, MaxAssets), e \in BOOLEAN}

PluginInputs ==
    {[op |-> "plugin_info", plugin |-> pl, affected |-> af] :
        pl \in PluginAnswers, af \in AffectedStreams}

InitPlugin == InitCall(PluginInputs, {FileMissing})

CallPluginInfo ==
    /\ pc = "call"
    /\ inp.op = "plugin_info"
    /\ ret' = get_plugin_info(inp.plugin, inp.affected)
    /\ pc' = "returned"
    /\ executed' = Append(executed, "plugin_info")
    /\ UNCHANGED <<args, status, access_key, secret_key, tio, df_assets, file, inp>>

SpecPlugin == InitPlugin /\ [][CallPluginInfo]_vars

\* ---- answers longer than the printed lists ----
Digits == <<"0", "1", "2", "3", "4", "5", "6", "7", "8", "9">>

\* the id of the i-th asset of a long answer
IdNo(i) ==
    <<"u", Digits[((i \div 100) % 10) + 1], Digits[((i \div 10) % 10) + 1],
      Digits[(i % 10) + 1]>>

\* no answer, and the lengths around a limit and around twice the limit
LengthsAround(limit) ==
    {0} \cup ((limit - MaxOver)..(limit + MaxOver))
        \cup ((2 * limit - MaxOver)..(2 * limit + MaxOver))

\* every other asset is named a, the others b; all have the address 1
HostNo(i) == IF i % 2 = 1 THEN HostA ELSE HostB

LargeFiles ==
    {FileMissing, FileCorrupt}
    \cup {FileOk(DataFrame(AllColumns,
                           [i \in 1..n |-> Row(IdNo(i), Ip1, HostNo(i), Num(1))])) :
             n \in LengthsAround(SearchLimit)}

LargeLiveLists ==
    {[exc |-> TRUE, assets |-> <<>>]}
    \cup {[exc |-> FALSE,
           assets |-> [i \in 1..n |->
                          LiveAsset(IdNo(i), List(<<HostNo(i)>>), List(<<Ip1>>))]] :
             n \in LengthsAround(SearchLimit)}

LargeSearchInputs ==
    {[op |-> "search_assets", query |-> q, live |-> l] :
        q \in {HostA, HostB, Ip1, <<"z">>}, l \in LargeLiveLists}

LargeAffectedStreams ==
    {[items |-> [i \in 1..n |-> IdNo(i)], exc |-> e] :
        n \in LengthsAround(PluginLimit), e \in BOOLEAN}

LargePluginInputs ==
    {[op |-> "plugin_info", plugin |-> pl, affected |-> af] :
        pl \in {a \in PluginAnswers : Len(a.attributes) <= 1},
        af \in LargeAffectedStreams}

InitLarge ==
    \/ InitCall(LargePluginInputs, {FileMissing})
    \/ InitCall(LargeSearchInputs, LargeFiles)

SpecLarge == InitLarge /\ [][CallPluginInfo \/ CallSearchAssets]_vars

\* ---- scan listing ----
Scans ==
    {Scan(id, st) : id \in {ScanId(1), ScanId(2), NoScanId},
                    st \in {"completed", "running", "aborted"}}

ScanAnswers ==
    {[exc |-> TRUE, scans |-> <<>>]}
    \cup {[exc |-> FALSE, scans |-> sc] : sc \in SeqsUpTo(Scans, MaxScans)}

ScanInputs == {[op |-> "list_scans", resp |-> r] : r \in ScanAnswers}

InitScans == InitCall(ScanInputs, {FileMissing})

CallListScans ==
    /\ pc = "call"
    /\ inp.op = "list_scans"
    /\ ret' = list_successful_scans(inp.resp)
    /\ pc' = "returned"
    /\ executed' = Append(executed, "list_scans")
    /\ UNCHANGED <<args, status, access_key, secret_key, tio, df_assets, file, inp>>

SpecScans == InitScans /\ [][CallListScans]_vars


(***************************************************************************)
(* Properties.                                                             *)
(***************************************************************************)
Range(seq) == {seq[i] : i \in 1..Len(seq)}

Min(a, b) == IF a < b THEN a ELSE b

\* a credential that is unset or empty
CredentialMissing ==
    access_key \in {"unset", "empty"} \/ secret_key \in {"unset", "empty"}

Commands ==
    {"list_scans", "export_all", "export_assets", "asset_info", "plugin_info",
     "search_assets", "top_assets", "to_csv", "to_json"}

\* the commands the flags select, as main's dispatch reads them
Selected(cmd) ==
    CASE cmd = "list_scans" -> args.list_scans \/ args.all
      [] cmd = "export_all" -> args.export_all
      [] cmd = "export_assets" -> ~args.export_all /\ (args.export_assets \/ args.all)
      [] cmd = "asset_info" -> given(args.asset_info)
      [] cmd = "plugin_info" -> given(args.plugin_info)
      [] cmd = "search_assets" -> given(args.search_assets)
      [] cmd = "top_assets" -> args.top_assets \/ args.all
      [] cmd = "to_csv" -> args.to_csv
      [] OTHER -> args.to_json

\* C1 as stated: with any command selected and a credential missing or
\* empty, the run ends with exit status 1 and no command operation has run.
C1_ExitForEveryCommand ==
    (has_command /\ CredentialMissing) =>
        /\ executed = <<>>
        /\ pc = "done" => status = "exit1"

\* C1 amended: the credentials are read only when a command that needs the
\* API client is selected (list-scans, export-assets, export-all, asset-info,
\* plugin-info, search-assets, all).  Such a run with a missing or empty
\* credential exits with status 1 before any command operation; with both
\* keys set it never exits so; a run that selects only top-assets, to-csv
\* or to-json never reads the keys, never exits with status 1 and builds no
\* client.
C1_ExitWhenClientNeeded ==
    /\ (needs_client /\ CredentialMissing) =>
          /\ executed = <<>>
          /\ pc \in {"start", "client", "done"}
          /\ pc = "done" => status = "exit1"
    /\ (needs_client /\ ~CredentialMissing) => status # "exit1"
    /\ ~needs_client => (status # "exit1" /\ tio = "None")

C1_Witness ==
    /\ args.list_scans /\ args.top_assets /\ args.to_csv
    /\ access_key = "set" /\ secret_key = "empty"
    /\ pc = "done" /\ status = "exit1" /\ executed = <<>>

\* a command has been entered: its operation was called or, for top-assets,
\* the load of the input file that precedes it
Entered(cmd) ==
    \/ cmd \in Range(executed)
    \/ cmd = "top_assets" /\ "load_dataframe" \in Range(executed)

\* C2: no failure of a command operation stops the run: main never ends by
\* an exception, and when it returns every selected command has been entered.
C2_FailureNeverStopsRun ==
    /\ status # "raised"
    /\ (pc = "done" /\ status = "returned") =>
          \A cmd \in Commands : Selected(cmd) => Entered(cmd)

\* ---- get_asset_info ----
AssetInfoDone == pc = "returned" /\ ret.op = "asset_info"

LiveIterated == "assets.list" \in Range(ret.calls)

DetailsCalled == "assets.details" \in Range(ret.calls)

FileRows == IF file.kind = "ok" THEN file.df.rows ELSE <<>>

\* the row's hostname or ipv4 equals the query, case-insensitively
RowEquals(row) ==
    lower(row.hostname) = lower(inp.hostname) \/ lower(row.ipv4) = lower(inp.hostname)

SomeRowEquals == \E i \in 1..Len(FileRows) : RowEquals(FileRows[i])

FirstEqual ==
    CHOOSE i \in 1..Len(FileRows) :
        RowEquals(FileRows[i]) /\ \A j \in 1..(i - 1) : ~RowEquals(FileRows[j])

\* C3 as stated: the live list is iterated if and only if the file is
\* missing or no row equals the query; a matching row's identifier is used
\* and the live list is not requested.
C3_LiveIffNoCacheMatch ==
    AssetInfoDone =>
        /\ LiveIterated <=> (file.kind = "missing" \/ ~SomeRowEquals)
        /\ SomeRowEquals =>
              (ret.asset_uuid = Uuid(FileRows[FirstEqual].id) /\ ~LiveIterated)

\* C3 amended: the data file is read first.  The live list is iterated if
\* and only if the file is missing, or it loads and either no row equals the
\* query or the first row that does has an empty identifier.  When the first
\* matching row has a non-empty identifier, that identifier is used and the
\* live list is never requested.  A file that cannot be read for another
\* reason ends the lookup with an error: neither the live list nor the
\* detail call is made.
C3_LiveIffNoCacheIdentifier ==
    AssetInfoDone =>
        /\ ret.calls[1] = "load_dataframe"
        /\ LiveIterated <=>
              \/ file.kind = "missing"
              \/ /\ file.kind = "ok"
                 /\ ~SomeRowEquals \/ FileRows[FirstEqual].id = EmptyStr
        /\ LiveIterated => ret.calls[2] = "assets.list"
        /\ (file.kind = "ok" /\ SomeRowEquals /\ FileRows[FirstEqual].id # EmptyStr) =>
              (ret.asset_uuid = Uuid(FileRows[FirstEqual].id) /\ ~LiveIterated)
        /\ file.kind = "corrupt" =>
              (ret.calls = <<"load_dataframe">> /\ ret.ret = "None")

C3_Witness ==
    /\ AssetInfoDone
    /\ inp.hostname = HostAB
    /\ Len(FileRows) = 2 /\ ~RowEquals(FileRows[1]) /\ RowEquals(FileRows[2])
    /\ ret.asset_uuid = Uuid(Id2)
    /\ \E i \in 1..Len(inp.live.assets) : inp.live.assets[i].id = Id1
    /\ ~LiveIterated

\* C4 as stated: an identifier was resolved and the detail call failed, so
\* the record of cached fields is returned.
C4_FallbackWheneverResolved ==
    (AssetInfoDone /\ DetailsCalled /\ ~inp.detail_ok) => ret.ret = "file_data"

\* C4 amended: when the detail call fails, the degraded fallback is taken if
\* and only if a row of the data file matched the query: the record is built
\* from that row.  When the identifier came from the live API with no
\* matching row in the file, the error is reported and None is returned.
C4_FallbackOnlyWithCachedRow ==
    (AssetInfoDone /\ DetailsCalled /\ ~inp.detail_ok) =>
        /\ (file.kind = "ok" /\ SomeRowEquals) =>
              /\ ret.ret = "file_data"
              /\ ret.file_row = FirstEqual
              /\ ret.printed = "Limited data from file"
        /\ ~(file.kind = "ok" /\ SomeRowEquals) =>
              /\ ret.ret = "None"
              /\ ret.printed = "Error retrieving asset info"

C4_Witness ==
    /\ AssetInfoDone /\ DetailsCalled /\ ~inp.detail_ok
    /\ ret.ret = "file_data" /\ ret.file_row = 2
    /\ ret.asset_uuid = Uuid(Id1)

\* ---- search_assets ----
SearchDone == pc = "returned" /\ ret.op = "search_assets"

HasQuery(text) == contains(lower(text), lower(inp.query))

\* hostname, IP or id of a row of the file contains the query
RowHit(row) == HasQuery(row.hostname) \/ HasQuery(row.ipv4) \/ HasQuery(row.id)

\* a name, an address or the id of a live asset contains the query
LiveHit(asset) ==
    \/ HasQuery(asset.id)
    \/ \E f \in {asset.hostname, asset.fqdn, asset.netbios_name, asset.ipv4, asset.ipv6} :
          f.t = "list" /\ \E i \in 1..Len(f.l) : HasQuery(f.l[i])

IdsOf(records) == [i \in 1..Len(records) |-> records[i].id]

\* C5: the result is exactly the records whose hostname, IP or id contains
\* the query; a file that loads is the only source (the live list is not
\* requested), an absent file gives the matching live assets, and an asset
\* is matched by the same rule through either source.
C5_SameMatchFromEitherSource ==
    SearchDone =>
        /\ file.kind = "ok" =>
              /\ "assets.list" \notin Range(ret.calls)
              /\ IdsOf(ret.ret) = IdsOf(SelectSeq(file.df.rows, RowHit))
        /\ (file.kind = "missing" /\ ~inp.live.exc) =>
              IdsOf(ret.ret) = IdsOf(SelectSeq(inp.live.assets, LiveHit))

\* ---- export ----
ExportDone == pc = "returned" /\ ret.op \in {"export_all", "export_assets"}

FirstElementOr(f, default) ==
    IF f.t = "list" /\ Len(f.l) > 0 THEN f.l[1] ELSE default

ScoreOr0(f) == IF f.t = "missing" THEN Num(0) ELSE f

\* C6: every asset of the stream gives one flat record, in order; ipv4,
\* hostname and os are the first element of the source list, or '', '' and
\* 'Unknown' when it is empty, None or missing; absent scores become 0; the
\* flattening does not raise.
C6_FlattenFirstOrDefault ==
    ExportDone =>
        /\ ~ret.raised
        /\ Len(ret.asset_data) = Len(inp.it.items)
        /\ \A i \in 1..Len(inp.it.items) :
              /\ ret.asset_data[i].id = inp.it.items[i].id
              /\ ret.asset_data[i].ipv4 = FirstElementOr(inp.it.items[i].ipv4s, EmptyStr)
              /\ ret.asset_data[i].hostname =
                    FirstElementOr(inp.it.items[i].hostnames, EmptyStr)
              /\ ret.asset_data[i].os =
                    FirstElementOr(inp.it.items[i].operating_system, Unknown)
              /\ ret.asset_data[i].exposure_score =
                    ScoreOr0(inp.it.items[i].exposure_score)
              /\ ret.asset_data[i].acr_score = ScoreOr0(inp.it.items[i].acr_score)
        /\ ~ret.ret.isNone => ret.ret.rows = ret.asset_data

C6_Witness ==
    /\ ExportDone /\ ret.op = "export_assets" /\ inp.it.exc = "none"
    /\ Len(inp.it.items) = 2
    /\ inp.it.items[1].ipv4s = List(<<>>)
    /\ inp.it.items[1].exposure_score = MissingScore
    /\ inp.it.items[2].ipv4s = List(<<Ip1, Ip2>>)
    /\ ret.asset_data[1].ipv4 = EmptyStr
    /\ ret.asset_data[2].ipv4 = Ip1
    /\ ~ret.ret.isNone

\* ---- get_plugin_info ----
PluginDone == pc = "returned" /\ ret.op = "plugin_info" /\ ~inp.plugin.exc

\* the values of the attributes named n, in their order in the array
ValuesOf(n) ==
    LET Named(a) == a.attribute_name = n
        sel == SelectSeq(inp.plugin.attributes, Named)
    IN  [i \in 1..Len(sel) |-> sel[i].attribute_value]

\* C7: a name that occurs once maps to its value, a name that occurs k >= 2
\* times maps to the list of its k values in order, and exactly the names
\* that occur are in the mapping.
C7_DuplicatesCoalesced ==
    PluginDone =>
        \A n \in AttrNames :
            /\ n \in DOMAIN ret.attributes <=> Len(ValuesOf(n)) > 0
            /\ Len(ValuesOf(n)) = 1 =>
                  (~ret.attributes[n].isList /\ ret.attributes[n].vals = ValuesOf(n))
            /\ Len(ValuesOf(n)) >= 2 =>
                  (ret.attributes[n].isList /\ ret.attributes[n].vals = ValuesOf(n))

C7_Witness ==
    /\ PluginDone
    /\ ValuesOf("cve") = <<"v1", "v2", "v1">>
    /\ ret.attributes["cve"].vals = <<"v1", "v2", "v1">>
    /\ "risk_factor" \notin DOMAIN ret.attributes

\* ---- get_top_exposed_assets ----
RankDone ==
    /\ pc = "returned" /\ ret.op = "top_assets"
    /\ ~inp.df.isNone /\ "exposure_score" \in inp.df.columns
    /\ inp.top_n >= 0

\* the score of input row i as a number, 0 when it is not numeric
Score(i) ==
    IF inp.df.rows[i].exposure_score.t \in {"num", "numstr"}
    THEN inp.df.rows[i].exposure_score.n
    ELSE 0

\* C8: min(N, rows) rows are printed, each with its coerced score, in
\* non-increasing order of score, and no row left out has a higher score
\* than a row printed.
C8_TopNByCoercedScore ==
    RankDone =>
        /\ Len(ret.lines) = Min(inp.top_n, Len(inp.df.rows))
        /\ Len(ret.order) = Len(ret.lines)
        /\ \A k \in 1..Len(ret.order) :
              /\ ret.order[k] \in 1..Len(inp.df.rows)
              /\ ret.lines[k].aes = Score(ret.order[k])
              /\ \A l \in 1..Len(ret.order) :
                    /\ k # l => ret.order[k] # ret.order[l]
                    /\ k < l => Score(ret.order[k]) >= Score(ret.order[l])
              /\ \A j \in 1..Len(inp.df.rows) :
                    j \notin Range(ret.order) => Score(ret.order[k]) >= Score(j)

C8_Witness ==
    /\ RankDone /\ inp.top_n = 2 /\ Len(inp.df.rows) = 3
    /\ inp.df.rows[1].exposure_score = Junk
    /\ inp.df.rows[2].exposure_score = NumStr(1)
    /\ inp.df.rows[3].exposure_score = Num(2)
    /\ ret.order = <<3, 2>>

\* C9: rows of equal coerced score keep their input order in the ranking,
\* so the tied rows printed are the first ones of the input.
C9_StableUnderTies ==
    RankDone =>
        \A k \in 1..Len(ret.order) :
            /\ \A l \in 1..Len(ret.order) :
                  (k < l /\ Score(ret.order[k]) = Score(ret.order[l])) =>
                      ret.order[k] < ret.order[l]
            /\ \A j \in 1..Len(inp.df.rows) :
                  (j \notin Range(ret.order) /\ Score(ret.order[k]) = Score(j)) =>
                      ret.order[k] < j

\* ---- top-assets without a usable score column ----
Unrankable(df) == df.isNone \/ Len(df.rows) = 0 \/ "exposure_score" \notin df.columns

UnrankableFrames ==
    {NoDf, DataFrame(AllColumns, <<>>),
     DataFrame(NoScoreColumns, <<Row(Id1, Ip1, HostA, MissingScore)>>),
     DataFrame(NoScoreColumns, <<Row(Id1, Ip1, HostA, MissingScore),
                                 Row(Id2, Ip1, HostAb, MissingScore)>>)}

\* C10: given None, an empty dataframe or one without the exposure_score
\* column, get_top_exposed_assets prints a message and returns without
\* raising, with the dataframe as it was; in a run of main the commands
\* after top-assets are then still called.
C10_AbsentScoreIsSoftWarning ==
    /\ \A df \in UnrankableFrames, n \in 0..MaxTop :
          \A r \in get_top_exposed_assets(df, n) :
              /\ ~r.raised /\ r.df = df /\ r.lines = <<>>
              /\ r.printed \in {"No data available", "Warning: field not found"}
    /\ ("top_assets" \in Range(executed) /\ Unrankable(df_assets)) =>
          /\ status # "raised"
          /\ pc = "to_csv" =>
                (ret.op = "top_assets" /\ ~ret.raised /\ ret.df = inp.df
                    /\ ret.lines = <<>>)
          /\ pc = "done" =>
                /\ status = "returned"
                /\ args.to_csv => "to_csv" \in Range(executed)
                /\ args.to_json => "to_json" \in Range(executed)

C10_Witness ==
    /\ pc = "done" /\ status = "returned"
    /\ "exposure_score" \notin df_assets.columns /\ ~df_assets.isNone
    /\ executed = <<"load_dataframe", "top_assets", "to_csv", "to_json">>

\* ---- list_successful_scans ----
ScansDone == pc = "returned" /\ ret.op = "list_scans"

Completed(scan) == scan.status = "completed"

\* C11: when the scans are fetched and printed without a failure, the rows
\* printed are exactly the scans whose status is 'completed', in source
\* order, and the reported total is their number; when fetching or printing
\* fails, the error is printed and the operation returns without raising.
C11_CompletedScansListed ==
    ScansDone =>
        /\ ~ret.raised
        /\ ret.error <=>
              \/ inp.resp.exc
              \/ \E i \in 1..Len(inp.resp.scans) :
                    Completed(inp.resp.scans[i]) /\ inp.resp.scans[i].id.isNone
        /\ ~ret.error =>
              /\ ret.printed = SelectSeq(inp.resp.scans, Completed)
              /\ ret.reported
              /\ ret.total = Cardinality({i \in 1..Len(inp.resp.scans) :
                                            Completed(inp.resp.scans[i])})
        /\ ret.error =>
              /\ ~ret.reported
              /\ Len(ret.printed) <= Len(SelectSeq(inp.resp.scans, Completed))
              /\ ret.printed =
                    SubSeq(SelectSeq(inp.resp.scans, Completed), 1, Len(ret.printed))

C11_Witness ==
    /\ ScansDone /\ ~ret.error
    /\ Len(inp.resp.scans) = 3
    /\ inp.resp.scans[1] = Scan(ScanId(2), "completed")
    /\ inp.resp.scans[2] = Scan(NoScanId, "aborted")
    /\ inp.resp.scans[3] = Scan(ScanId(1), "completed")
    /\ ret.printed = <<Scan(ScanId(2), "completed"), Scan(ScanId(1), "completed")>>
    /\ ret.total = 2

\* ---- the dataframe passed from the export to the ranking ----
ExportOps == {"export_all", "export_assets"}

ExportsRun(log) == {i \in 1..Len(log) : log[i] \in ExportOps}

\* C12: at most one export runs in a run of main, export_all before the
\* tag export; the dataframe an export returns stays main's dataframe up to
\* the top-assets step, which ranks exactly it without loading the input
\* file; the input file is loaded for the ranking if and only if no export
\* ran or the export returned None.
C12_ExportFrameReachesRanking ==
    [][ /\ Cardinality(ExportsRun(executed')) <= 1
        /\ args.export_all => "export_assets" \notin Range(executed')
        /\ (pc = "export" /\ executed' # executed) =>
              /\ ret'.op \in ExportOps
              /\ df_assets' = ret'.ret
        /\ (pc = "export" /\ executed' = executed) => df_assets'.isNone
        /\ pc \in {"asset_info", "plugin_info", "search_assets"} =>
              df_assets' = df_assets
        /\ (pc = "top_assets" /\ (args.top_assets \/ args.all)) =>
              /\ "load_dataframe" \in Range(executed') <=>
                    (ExportsRun(executed) = {} \/ df_assets.isNone)
              /\ ~df_assets.isNone =>
                    /\ inp'.op = "top_assets"
                    /\ inp'.df = df_assets
                    /\ "top_assets" \in Range(executed')
      ]_vars

C12_Witness ==
    /\ args.export_all /\ args.export_assets /\ args.all
    /\ pc = "to_csv" /\ ret.op = "top_assets"
    /\ executed = <<"list_scans", "export_all", "top_assets">>
    /\ ~inp.df.isNone /\ Len(inp.df.rows) = 1 /\ inp.df.rows[1].id = Id1
    /\ file.kind = "ok" /\ inp.df = file.df

IsFirst(shown, all, limit) ==
    /\ Len(shown) = Min(limit, Len(all))
    /\ \A i \in 1..Len(shown) : shown[i] = all[i]

\* the matches the search collected from the source it read
Matches ==
    IF file.kind = "ok" THEN file_matches(file.df.rows, inp.query)
    ELSE live_matches_of(inp.live.assets, inp.query)

\* C14: the plugin output counts all n affected assets that were retrieved
\* and lists the first min(20, n) of them in retrieval order, also when the
\* retrieval failed after them; the search output counts and the search
\* returns all m matches and lists the first min(50, m); the note is there
\* exactly when the total is above the limit.
C14_TruncationKeepsTotals ==
    /\ PluginDone =>
          /\ ret.printed = "output"
          /\ ret.count = Len(inp.affected.items)
          /\ IsFirst(ret.shown, inp.affected.items, PluginLimit)
          /\ ret.note <=> Len(inp.affected.items) > PluginLimit
          /\ ret.warned <=> inp.affected.exc
    /\ (SearchDone /\ ret.printed = "output") =>
          /\ ret.ret = Matches
          /\ ret.total = Len(Matches)
          /\ IsFirst(ret.shown, Matches, SearchLimit)
          /\ ret.note <=> Len(Matches) > SearchLimit
    /\ (SearchDone /\ ret.printed # "output") =>
          /\ ret.ret = <<>>
          /\ ret.printed = "No assets found" => Matches = <<>>
    /\ (SearchDone /\ ret.printed # "Error searching assets" /\ Matches # <<>>) =>
          ret.printed = "output"

C14_Witness ==
    /\ PluginDone
    /\ inp.affected.exc
    /\ ret.count = PluginLimit + 1
    /\ Len(ret.shown) = PluginLimit
    /\ ret.shown[PluginLimit] = IdNo(PluginLimit)
    /\ ret.note

====
